---------------------------- MODULE Spec2Model ----------------------------
(***************************************************************************)
(* A model of src/parse_html.py: the markup text extractor, the PII        *)
(* redactor, the topic classifier, the dialogue synthesizer, the record    *)
(* assembler, the filename slug and the batch loop of main.                *)
(*                                                                         *)
(* Text is a sequence of characters.  A character is a one-character       *)
(* string for ASCII ("a", "7", "@", "\n") and the token "uXXXX" for the    *)
(* code point U+XXXX otherwise ("u6211" is the ideograph 我).              *)
(***************************************************************************)
EXTENDS Naturals, Integers, Sequences, FiniteSets, TLC

VARIABLES
    \* HTMLContentExtractor (lines 14-77): the object's fields
    text_parts, in_script, in_style, in_nav, in_aside, in_article,
    fed,          \* the parser events handed to the handlers so far
    \* parse_html_file (lines 220-318)
    html_content, \* the document, as the events its markup parses to
    result,       \* the returned record, NULL before the return
    \* obscure_personal_info (lines 100-125)
    body,         \* the argument `text` as passed in
    text,         \* the local `text`, rewritten by each pass
    changes,      \* the local `changes`
    pass,         \* position in the function: "start", "email", "phone", "done"
    \* classify_topic (lines 127-150), generate_mock_dialogue (lines 182-218)
    title, content, has_crisis,   \* the arguments
    scores, primary, secondary,   \* classify_topic's locals
    dialogue,                     \* generate_mock_dialogue's local
    \* the summary and content fields of parse_html_file (lines 290-293, 308)
    content_text, summary, content_field,
    \* generate_json_filename (lines 320-329)
    source_file, slug, rounds,
    \* main (lines 331-382)
    input_dir_exists, cwd, output_dir, html_files, idx, errors, zip, pc

vars_ex == <<text_parts, in_script, in_style, in_nav, in_aside, in_article, fed>>
vars_pf == <<html_content, result>>
vars_re == <<body, text, changes, pass>>
vars_cl == <<title, content, has_crisis, scores, primary, secondary, dialogue>>
vars_sm == <<content_text, summary, content_field>>
vars_sl == <<source_file, slug, rounds>>
vars_mn == <<input_dir_exists, cwd, output_dir, html_files, idx, errors, zip, pc>>

vars == <<vars_ex, vars_pf, vars_re, vars_cl, vars_sm, vars_sl, vars_mn>>

\* None, where a str may stand
NULL == <<"None">>

(***************************************************************************)
(* Character classes of Python's str regular expressions and str methods.  *)
(***************************************************************************)
Digit == {"0", "1", "2", "3", "4", "5", "6", "7", "8", "9"}

\* str.isspace / \s : the white space of the model's alphabet
\* (u3000 is the ideographic space).
Space == {" ", "\n", "\t", "u3000"}

\* Every character of the model's alphabet that is not matched by \w.
\* All other characters used (ASCII letters, digits, "_", Han ideographs)
\* are word characters for a str pattern.
NonWord == Space \cup {"@", ".", "-", "*", ",", ":", "/", "<", ">", "uff0c"}

IsDigit(c) == c \in Digit
IsSpace(c) == c \in Space
IsWord(c) == c \notin NonWord

\* [-.\s]
IsSep(c) == c \in {"-", "."} \/ IsSpace(c)

\* [\w.-]
IsEmailChar(c) == IsWord(c) \/ c \in {".", "-"}

Min(S) == CHOOSE x \in S : \A y \in S : x <= y
Max(S) == CHOOSE x \in S : \A y \in S : x >= y

\* The sequence f as an explicit tuple.  TLC evaluates a function expression
\* [i \in 1..n |-> e] anew at each application; the tuple is evaluated once.
Tuple(f) == f \o <<>>

(***************************************************************************)
(* str helpers.                                                            *)
(***************************************************************************)
\* s[:n]
Take(s, n) == SubSeq(s, 1, IF n < Len(s) THEN n ELSE Len(s))

\* s[-n:]
Last(s, n) == SubSeq(s, IF Len(s) > n THEN Len(s) - n + 1 ELSE 1, Len(s))

\* p in s
Contains(s, p) ==
    \E i \in 0..(Len(s) - Len(p)) : SubSeq(s, i + 1, i + Len(p)) = p

\* s.strip()
Strip(s) ==
    LET keep == {i \in 1..Len(s) : ~IsSpace(s[i])}
    IN  IF keep = {} THEN <<>> ELSE SubSeq(s, Min(keep), Max(keep))

(***************************************************************************)
(* obscure_personal_info: the three patterns, matched as re matches them   *)
(* (leftmost, greedy, backtracking), and re.sub.                           *)
(***************************************************************************)
\* \b before index i (i = Len(t) + 1 is the end of the text)
WordBoundary(t, i) ==
    LET before == i > 1 /\ IsWord(t[i - 1])
        after  == i <= Len(t) /\ IsWord(t[i])
    IN  before # after

\* \d{k} at i
DigitsAt(t, i, k) ==
    /\ i >= 1
    /\ i + k - 1 <= Len(t)
    /\ \A j \in i..(i + k - 1) : IsDigit(t[j])

\* the longest run of [\w.-] (email = TRUE) or of \w (email = FALSE) from i
RunLen(t, i, email) ==
    Max({n \in 0..(Len(t) - i + 1) :
            \A j \in i..(i + n - 1) :
                IF email THEN IsEmailChar(t[j]) ELSE IsWord(t[j])})

\* r'\b\d{8,10}\b' at i: the length matched, 0 for no match.
\* The quantifier is greedy: 10 digits are tried before 9 and 8.
StudentIdMatch(t, i) ==
    LET ks == {k \in 8..10 :
                  WordBoundary(t, i) /\ DigitsAt(t, i, k) /\ WordBoundary(t, i + k)}
    IN  IF ks = {} THEN 0 ELSE Max(ks)

\* r'[\w.-]+@[\w.-]+\.\w+' at i: the length matched, 0 for no match.
\* The local part is the whole run before "@" (a shorter one is followed by
\* a run character, not by "@"); the domain run gives back characters until
\* a "." followed by a word character is left for \.\w+.
EmailMatch(t, i) ==
    LET l  == RunLen(t, i, TRUE)
        at == i + l
    IN  IF l = 0 \/ at > Len(t) THEN 0
        ELSE IF t[at] # "@" THEN 0
        ELSE LET d  == RunLen(t, at + 1, TRUE)
                 ms == {m \in 1..(d - 2) :
                           t[at + m + 1] = "." /\ IsWord(t[at + m + 2])}
             IN  IF ms = {} THEN 0
                 ELSE LET m == Max(ms)
                      IN  l + 1 + m + 1 + RunLen(t, at + m + 2, FALSE)

\* r'\d{4}[-.\s]?\d{4}' at p: the index after the match, 0 for no match
PhoneTail(t, p) ==
    IF ~DigitsAt(t, p, 4) THEN 0
    ELSE IF p + 4 <= Len(t) /\ IsSep(t[p + 4]) /\ DigitsAt(t, p + 5, 4) THEN p + 9
    ELSE IF DigitsAt(t, p + 4, 4) THEN p + 8
    ELSE 0

\* r'(?:\d{2,4}[-.\s]?)*\d{4}[-.\s]?\d{4}' from p: the index after the match,
\* 0 for no match.  The alternatives are tried in the order of the
\* backtracking matcher: one more group of 4, 3, 2 digits, each with the
\* separator before without it, and only then the two final groups.
RECURSIVE PhoneFrom(_, _)
PhoneGroup(t, p, k, s) ==
    IF DigitsAt(t, p, k) /\ (s = 1 => (p + k <= Len(t) /\ IsSep(t[p + k])))
    THEN PhoneFrom(t, p + k + s)
    ELSE 0

PhoneFrom(t, p) ==
    LET a == PhoneGroup(t, p, 4, 1)
        b == PhoneGroup(t, p, 4, 0)
        c == PhoneGroup(t, p, 3, 1)
        d == PhoneGroup(t, p, 3, 0)
        e == PhoneGroup(t, p, 2, 1)
        f == PhoneGroup(t, p, 2, 0)
    IN  IF a > 0 THEN a
        ELSE IF b > 0 THEN b
        ELSE IF c > 0 THEN c
        ELSE IF d > 0 THEN d
        ELSE IF e > 0 THEN e
        ELSE IF f > 0 THEN f
        ELSE PhoneTail(t, p)

PhoneMatch(t, i) ==
    LET e == PhoneFrom(t, i) IN IF e = 0 THEN 0 ELSE e - i

\* the length pattern `kind` matches at i, 0 for no match
MatchLen(kind, t, i) ==
    CASE kind = "student_id" -> StudentIdMatch(t, i)
      [] kind = "email"      -> EmailMatch(t, i)
      [] kind = "phone"      -> PhoneMatch(t, i)

\* m.group(0).split('@')[1]
AfterAt(m) ==
    LET ats  == {i \in 1..Len(m) : m[i] = "@"}
        fst  == Min(ats)
        rest == {i \in ats : i > fst}
    IN  SubSeq(m, fst + 1, IF rest = {} THEN Len(m) ELSE Min(rest) - 1)

\* the replacement lambdas of lines 110, 116, 122
Mask(kind, m) ==
    CASE kind = "student_id" -> Take(m, 2) \o <<"*", "*", "*">> \o Last(m, 2)
      [] kind = "email"      -> Take(m, 2) \o <<"*", "*", "*", "@">> \o AfterAt(m)
      [] kind = "phone"      -> Take(m, 2) \o <<"*", "*", "*">> \o Last(m, 3)

\* re.search(pattern, text)
ReSearch(kind, t) == \E i \in 1..Len(t) : MatchLen(kind, t, i) > 0

\* re.sub(pattern, lambda, text) from index i on: the leftmost match is
\* replaced and the scan goes on after it
RECURSIVE ReSubFrom(_, _, _)
ReSubFrom(kind, t, i) ==
    IF i > Len(t) THEN <<>>
    ELSE LET n == MatchLen(kind, t, i)
         IN  IF n > 0
             THEN Mask(kind, SubSeq(t, i, i + n - 1)) \o ReSubFrom(kind, t, i + n)
             ELSE <<t[i]>> \o ReSubFrom(kind, t, i + 1)

ReSub(kind, t) == ReSubFrom(kind, t, 1)

\* one guarded pass: lines 109-111, 115-117, 121-123
ObscurePass(kind, st) ==
    IF ReSearch(kind, st.text)
    THEN [text |-> ReSub(kind, st.text), changes |-> Append(st.changes, kind)]
    ELSE st

\* obscure_personal_info(text) -> (text, changes)
obscure_personal_info(t) ==
    IF t = <<>> THEN [text |-> t, changes |-> <<>>]
    ELSE ObscurePass("phone",
            ObscurePass("email",
               ObscurePass("student_id", [text |-> t, changes |-> <<>>])))

(***************************************************************************)
(* More str helpers.                                                       *)
(***************************************************************************)
Upper == <<"A", "B", "C", "D", "E", "F", "G", "H", "I", "J", "K", "L", "M",
           "N", "O", "P", "Q", "R", "S", "T", "U", "V", "W", "X", "Y", "Z">>
Lower == <<"a", "b", "c", "d", "e", "f", "g", "h", "i", "j", "k", "l", "m",
           "n", "o", "p", "q", "r", "s", "t", "u", "v", "w", "x", "y", "z">>

\* c.lower(): only the ASCII capitals of the model's alphabet have a lower case
LowerChar(c) ==
    IF \E i \in 1..Len(Upper) : Upper[i] = c
    THEN Lower[CHOOSE i \in 1..Len(Upper) : Upper[i] = c]
    ELSE c

\* s.lower()
LowerStr(s) == Tuple([i \in 1..Len(s) |-> LowerChar(s[i])])

\* sep.join(parts)
RECURSIVE Join(_, _)
Join(parts, sep) ==
    IF parts = <<>> THEN <<>>
    ELSE IF Len(parts) = 1 THEN parts[1]
    ELSE parts[1] \o sep \o Join(Tail(parts), sep)

\* s.split(c) for a one-character separator c
RECURSIVE Split(_, _)
Split(s, c) ==
    LET at == {i \in 1..Len(s) : s[i] = c}
    IN  IF at = {} THEN <<s>>
        ELSE <<SubSeq(s, 1, Min(at) - 1)>> \o Split(SubSeq(s, Min(at) + 1, Len(s)), c)

\* s.count(w): the occurrences found scanning left to right without overlap
\* the index of the first occurrence of w in s at or after i, 0 without one
Find(s, w, i) ==
    LET at == {j \in i..(Len(s) - Len(w) + 1) : SubSeq(s, j, j + Len(w) - 1) = w}
    IN  IF at = {} THEN 0 ELSE Min(at)

RECURSIVE CountFrom(_, _, _)
CountFrom(s, w, i) ==
    LET j == Find(s, w, i)
    IN  IF j = 0 THEN 0 ELSE 1 + CountFrom(s, w, j + Len(w))

Count(s, w) == CountFrom(s, w, 1)

\* s.replace(old, new)
RECURSIVE ReplaceFrom(_, _, _, _)
ReplaceFrom(s, old, new, i) ==
    LET j == Find(s, old, i)
    IN  IF j = 0 THEN SubSeq(s, i, Len(s))
        ELSE SubSeq(s, i, j - 1) \o new \o ReplaceFrom(s, old, new, j + Len(old))

Replace(s, old, new) == ReplaceFrom(s, old, new, 1)

\* the elements of a set of numbers in increasing order
RECURSIVE Ascending(_)
Ascending(S) ==
    IF S = {} THEN <<>> ELSE <<Min(S)>> \o Ascending(S \ {Min(S)})

\* any(kw in s for kw in kws)
AnyIn(kws, s) == \E i \in 1..Len(kws) : Contains(s, kws[i])

(***************************************************************************)
(* HTMLContentExtractor.                                                   *)
(***************************************************************************)
\* line 27
ui_keywords ==
    << <<"u4e0b", "u8f09", " ", "A", "p", "p">>,
       <<"u6240", "u6709", "u770b", "u677f">>,
       <<"u5373", "u6642", "u71b1", "u9580", "u770b", "u677f">>,
       <<"u5275", "u4f5c", "u8005", "u6392", "u884c", "u699c">>,
       <<"u6700", "u8fd1", "u9020", "u8a2a">>,
       <<"u67e5", "u770b", "u5168", "u90e8">>,
       <<"u8ffd", "u8e64", "u7684", "u770b", "u677f">>,
       <<"u67e5", "u770b", "u6240", "u6709", "u6587", "u7ae0">>,
       <<"D", "c", "a", "r", "d", " ", "u7cbe", "u9078", "u770b", "u677f">>,
       <<"u670d", "u52d9", "u689d", "u6b3e">>,
       <<"u5e6b", "u52a9", "u4e2d", "u5fc3">>,
       <<"u54c1", "u724c", "u8b58", "u5225">>,
       <<"u5fb5", "u624d">>,
       <<"u5546", "u696d", "u5408", "u4f5c">>,
       <<"u96b1", "u79c1", "u653f", "u7b56">>,
       <<"u770b", "u677f", "u9996", "u9801">>,
       <<"u56de", "u5230", "u9802", "u90e8">> >>

\*   下載 App
\*   所有看板
\*   即時熱門看板
\*   創作者排行榜
\*   最近造訪
\*   查看全部
\*   追蹤的看板
\*   查看所有文章
\*   Dcard 精選看板
\*   服務條款
\*   幫助中心
\*   品牌識別
\*   徵才
\*   商業合作
\*   隱私政策
\*   看板首頁
\*   回到頂部
NL == <<"\n">>

\* a parser event: handle_starttag(tag, attrs), handle_endtag(tag) or
\* handle_data(data); html.parser hands tag names over in lower case
StartTag(tag) == [kind |-> "start", tag |-> tag, data |-> <<>>]
EndTag(tag)   == [kind |-> "end", tag |-> tag, data |-> <<>>]
Data(d)       == [kind |-> "data", tag |-> "", data |-> d]

\* handle_starttag, lines 34-44
handle_starttag(tag) ==
    /\ in_script'  = IF tag = "script" THEN TRUE ELSE in_script
    /\ in_style'   = IF tag = "style" THEN TRUE ELSE in_style
    /\ in_nav'     = IF tag = "nav" THEN TRUE ELSE in_nav
    /\ in_aside'   = IF tag = "aside" THEN TRUE ELSE in_aside
    /\ in_article' = IF tag \in {"article", "main"} THEN TRUE ELSE in_article
    /\ UNCHANGED text_parts

\* the guard of lines 55 and 57
SeparatorTag(tag) == tag \in {"br", "p"} /\ ~in_nav /\ ~in_aside

\* handle_endtag, lines 46-58
handle_endtag(tag) ==
    /\ in_script'  = IF tag = "script" THEN FALSE ELSE in_script
    /\ in_style'   = IF tag = "style" THEN FALSE ELSE in_style
    /\ in_nav'     = IF tag = "nav" THEN FALSE ELSE in_nav
    /\ in_aside'   = IF tag = "aside" THEN FALSE ELSE in_aside
    /\ in_article' = IF tag \in {"article", "main"} THEN FALSE ELSE in_article
    /\ text_parts' = IF SeparatorTag(tag) THEN Append(text_parts, NL) ELSE text_parts

\* the guard of line 61 without its last conjunct
CollectingInAside == ~in_script /\ ~in_style /\ ~in_nav

\* the guard of line 61
Collecting == ~in_script /\ ~in_style /\ ~in_nav /\ ~in_aside

\* the guard of line 63, on the stripped data
Keeps(t) == t # <<>> /\ ~AnyIn(ui_keywords, t)

\* handle_data, lines 60-64
handle_data(data) ==
    /\ text_parts' = IF Collecting /\ Keeps(Strip(data))
                     THEN Append(text_parts, Strip(data))
                     ELSE text_parts
    /\ UNCHANGED <<in_script, in_style, in_nav, in_aside, in_article>>

\* get_text, lines 66-77
get_text(parts) ==
    LET full_text == Strip(Join(parts, NL))
        lines     == Split(full_text, "\n")
        kept      == {i \in 1..Len(lines) :
                         ~AnyIn(ui_keywords, lines[i]) /\ Strip(lines[i]) # <<>>}
        order     == Ascending(kept)
        cleaned   == Tuple([i \in 1..Len(order) |-> lines[order[i]]])
    IN  Strip(Join(cleaned, NL))

\* one event reaches its handler (HTMLParser.feed, line 241)
Feed(ev) ==
    /\ fed' = Append(fed, ev)
    /\ CASE ev.kind = "start" -> handle_starttag(ev.tag)
         [] ev.kind = "end"   -> handle_endtag(ev.tag)
         [] ev.kind = "data"  -> handle_data(ev.data)

\* HTMLContentExtractor.__init__, lines 15-25
ExtractorInit ==
    /\ text_parts = <<>>
    /\ in_script = FALSE
    /\ in_style = FALSE
    /\ in_nav = FALSE
    /\ in_aside = FALSE
    /\ in_article = FALSE
    /\ fed = <<>>

(***************************************************************************)
(* classify_topic.                                                         *)
(***************************************************************************)
\* line 131
keywords ==
    << [category |-> <<"u7814", "u7a76", "u751f", "u58d3", "u529b">>,
        words |-> << <<"u7814", "u7a76", "u6240">>,
                   <<"u78a9", "u58eb">>,
                   <<"u78a9", "u73ed">>,
                   <<"u7814", "u7a76">>,
                   <<"u8003", "u7814">>,
                   <<"u7814", "u7a76", "u5ba4">> >>],
       [category |-> <<"u5fc3", "u7406", "u5065", "u5eb7", "u8207", "u60c5", "u7dd2">>,
        words |-> << <<"u7126", "u616e">>,
                   <<"u58d3", "u529b">>,
                   <<"u5d29", "u6f70">>,
                   <<"u6182", "u9b31">>,
                   <<"u5931", "u7720">>,
                   <<"u54ed">>,
                   <<"u5fc3", "u7406">>,
                   <<"u60c5", "u7dd2">> >>],
       [category |-> <<"u4eba", "u969b", "u8207", "u5b64", "u7368">>,
        words |-> << <<"u4eba", "u969b">>,
                   <<"u5b64", "u7368">>,
                   <<"u670b", "u53cb">>,
                   <<"u4ea4", "u53cb">>,
                   <<"u5b64", "u7368">>,
                   <<"u5bc2", "u5bde">>,
                   <<"u4eba", "u7de3">> >>],
       [category |-> <<"u6559", "u80b2", "u6c7a", "u7b56", "uff08", "u4f11", "u5b78", "/", "u8f49", "u5b78", "/", "u8f14", "u7cfb", "uff09">>,
        words |-> << <<"u4f11", "u5b78">>,
                   <<"u8f49", "u5b78">>,
                   <<"u8f14", "u7cfb">>,
                   <<"u9000", "u5b78">>,
                   <<"u653e", "u68c4">> >>],
       [category |-> <<"u6821", "u5712", "u793e", "u7fa4", "u8207", "u6578", "u4f4d", "u58d3", "u529b">>,
        words |-> << <<"u5bbf", "u820d">>,
                   <<"u793e", "u7fa4">>,
                   <<"u793e", "u5718">>,
                   <<"u6821", "u5712">>,
                   <<"u6821", "u968a">> >>],
       [category |-> <<"u6c42", "u8077", "u8207", "u751f", "u6daf", "u898f", "u5283">>,
        words |-> << <<"u6c42", "u8077">>,
                   <<"u5de5", "u4f5c">>,
                   <<"u8077", "u6daf">>,
                   <<"u5c31", "u696d">>,
                   <<"u9762", "u8a66">>,
                   <<"u7562", "u696d">>,
                   <<"u627e", "u5de5", "u4f5c">> >>] >>

\*   研究生壓力: 研究所 碩士 碩班 研究 考研 研究室
\*   心理健康與情緒: 焦慮 壓力 崩潰 憂鬱 失眠 哭 心理 情緒
\*   人際與孤獨: 人際 孤獨 朋友 交友 孤獨 寂寞 人緣
\*   教育決策（休學/轉學/輔系）: 休學 轉學 輔系 退學 放棄
\*   校園社群與數位壓力: 宿舍 社群 社團 校園 校隊
\*   求職與生涯規劃: 求職 工作 職涯 就業 面試 畢業 找工作
\* sum(combined.count(word) for word in words), line 142
RECURSIVE Score(_, _)
Score(words, combined) ==
    IF words = <<>> THEN 0
    ELSE Count(combined, Head(words)) + Score(Tail(words), combined)

\* the dict `scores` of lines 140-143, in insertion order: scores[i] is the
\* score of keywords[i].category
Scores(t, c) ==
    LET combined == LowerStr(t \o c)
    IN  Tuple([i \in 1..Len(keywords) |-> Score(keywords[i].words, combined)])

\* the last key, in insertion order, whose value is the largest
PrimaryIndexLastMax(sc) ==
    Max({i \in 1..Len(sc) : \A j \in 1..Len(sc) : sc[j] <= sc[i]})

\* max(scores, key=scores.get), line 145: the first key, in insertion order,
\* whose value is the largest
PrimaryIndex(sc) ==
    Min({i \in 1..Len(sc) : \A j \in 1..Len(sc) : sc[j] <= sc[i]})

\* the list of line 148
SecondaryIndexes(sc, p) ==
    Take(Ascending({i \in 1..Len(sc) : sc[i] > 0 /\ i # p}), 3)

\* classify_topic(title, content) -> (primary, secondary)
classify_topic(t, c) ==
    LET sc == Scores(t, c)
        p  == PrimaryIndex(sc)
        s  == SecondaryIndexes(sc, p)
    IN  [primary   |-> keywords[p].category,
         secondary |-> Tuple([i \in 1..Len(s) |-> keywords[s[i]].category])]

(***************************************************************************)
(* detect_crisis_flags.                                                    *)
(***************************************************************************)
\* line 167
crisis_keywords ==
    << <<"u81ea", "u6bba">>,
       <<"u81ea", "u50b7">>,
       <<"u81ea", "u6211", "u50b7", "u5bb3">>,
       <<"u6b7b">>,
       <<"u6d88", "u5931">>,
       <<"u653e", "u68c4">>,
       <<"u7121", "u6cd5", "u6d3b">>,
       <<"u60f3", "u6b7b">> >>

\*   自殺
\*   自傷
\*   自我傷害
\*   死
\*   消失
\*   放棄
\*   無法活
\*   想死
\* line 168
harassment_keywords ==
    << <<"u9a37", "u64fe">>,
       <<"u4fb5", "u5bb3">>,
       <<"u66b4", "u529b">>,
       <<"u6b3a", "u51cc">>,
       <<"u9738", "u51cc">> >>

\*   騷擾
\*   侵害
\*   暴力
\*   欺凌
\*   霸凌
\* line 169
medical_keywords ==
    << <<"u91ab", "u751f">>,
       <<"u85e5", "u7269">>,
       <<"u6cbb", "u7642">>,
       <<"u8a3a", "u65b7">>,
       <<"u75c7", "u72c0">> >>

\*   醫生
\*   藥物
\*   治療
\*   診斷
\*   症狀
\* detect_crisis_flags(content), lines 164-180
detect_crisis_flags(c) ==
    LET content_lower == LowerStr(c)
    IN  (IF AnyIn(crisis_keywords, content_lower) THEN <<"crisis">> ELSE <<>>)
        \o (IF AnyIn(harassment_keywords, content_lower) THEN <<"harassment">> ELSE <<>>)
        \o (IF AnyIn(medical_keywords, content_lower) THEN <<"medical">> ELSE <<>>)

(***************************************************************************)
(* generate_mock_dialogue.  The fixed template strings are kept whole, as  *)
(* one element each of the text they are part of.                          *)
(***************************************************************************)
\* line 190: "我最近遇到了很困擾的問題"
UserDefaultCrisis == <<"{user default, crisis}">>
\* line 194: "我聽到你的困擾。如果你現在感到非常難受，請聯絡學校心理諮商服務..."
AssistantCrisis == <<"{assistant referral, crisis}">>
\* line 199: "我最近感到很困擾"
UserDefault == <<"{user default}">>
\* line 203: "謝謝你的分享。我理解這對你來說可能很挑戰。..."
AssistantAsk == <<"{assistant asks for details}">>
\* line 210: "嗯，主要是因為" before the excerpt and "..." after it
ExcerptPrefix == <<"{user: mainly because}">>
Ellipsis == <<".", ".", ".">>
\* line 215: "我理解這些挑戰確實會帶來壓力。..."
AssistantSupport == <<"{assistant supportive reply}">>

ExcerptLimit == 150

Turn(role, t) == [role |-> role, text |-> t]

\* `x if x else default` for a string or None
OrElse(s, default) == IF s = NULL \/ s = <<>> THEN default ELSE s

\* the first two turns with the reply of the else branch in both branches
OpeningTurnsOneReply(t, crisis) ==
    IF crisis
    THEN <<Turn("user", OrElse(t, UserDefaultCrisis)), Turn("assistant", AssistantAsk)>>
    ELSE <<Turn("user", OrElse(t, UserDefault)), Turn("assistant", AssistantAsk)>>

\* the first two turns, lines 186-204
OpeningTurns(t, crisis) ==
    IF crisis
    THEN <<Turn("user", OrElse(t, UserDefaultCrisis)), Turn("assistant", AssistantCrisis)>>
    ELSE <<Turn("user", OrElse(t, UserDefault)), Turn("assistant", AssistantAsk)>>

\* the last two turns, lines 207-216
ClosingTurns(c) ==
    LET content_excerpt == IF Len(c) > ExcerptLimit THEN Take(c, ExcerptLimit) ELSE c
    IN  <<Turn("user", ExcerptPrefix \o content_excerpt \o Ellipsis),
          Turn("assistant", AssistantSupport)>>

\* generate_mock_dialogue(title, content, has_crisis)
generate_mock_dialogue(t, c, crisis) == OpeningTurns(t, crisis) \o ClosingTurns(c)

(***************************************************************************)
(* parse_html_file: the summary and the content field.                     *)
(***************************************************************************)
SummaryLimit == 180
ContentLimit == 2000

\* the summary without the cut of line 291
SummaryUncut(ct) ==
    LET head == Strip(Replace(ct, NL, <<" ">>))
    IN  IF Len(ct) > SummaryLimit THEN head \o Ellipsis ELSE head

\* lines 291-293
Summary(ct) ==
    LET head == Strip(Replace(Take(ct, SummaryLimit), NL, <<" ">>))
    IN  IF Len(ct) > SummaryLimit THEN head \o Ellipsis ELSE head

\* line 308
ContentField(ct) == IF ct # <<>> THEN Take(ct, ContentLimit) ELSE NULL

(***************************************************************************)
(* parse_html_file.  The document is the sequence of events html.parser    *)
(* makes of its markup; a pattern over the markup is matched on the events *)
(* the matched markup parses to.                                           *)
(***************************************************************************)
DcardSuffix == <<" ", "_", " ", "D", "c", "a", "r", "d">>        \* ' _ Dcard'
BoardSuffix == <<" ", "-", " ", "u770b", "u677f">>               \* ' - 看板'

\* re.search(r'<title>([^<]+)</title>', html_content), lines 247-248:
\* group(1) of the first title element that holds text, None without one
TitleMatch(doc) ==
    LET at == {i \in 1..(Len(doc) - 2) :
                  /\ doc[i] = StartTag("title")
                  /\ doc[i + 1].kind = "data"
                  /\ doc[i + 1].data # <<>>
                  /\ doc[i + 2] = EndTag("title")}
    IN  IF at = {} THEN NULL ELSE doc[Min(at) + 1].data

\* lines 249-250
TitleOf(doc) ==
    LET t == TitleMatch(doc)
    IN  IF t # NULL /\ Contains(t, DcardSuffix)
        THEN Strip(Replace(Replace(t, DcardSuffix, <<>>), BoardSuffix, <<>>))
        ELSE t

NotesLabel == <<"{notes label}">>        \* line 315: "個資遮蔽: "

\* the record of lines 277-318 for a document and the extractor's buffer
\* after the document was fed.  The fields taken from patterns over raw
\* attributes (source_file, url, domain, board_or_category, author_display,
\* links_extracted) and the constant ones are left out.
Record(doc, parts) ==
    LET t        == TitleOf(doc)
        redacted == obscure_personal_info(get_text(parts))
        ct       == redacted.text
        topic    == classify_topic(IF t = NULL THEN <<>> ELSE t, ct)
        flags    == detect_crisis_flags(ct)
    IN  [title            |-> t,
         content_text     |-> ContentField(ct),
         topic_primary    |-> topic.primary,
         topic_secondary  |-> topic.secondary,
         summary_150zh    |-> Summary(ct),
         moderation_flags |-> flags,
         dialogue_mock    |-> generate_mock_dialogue(t, ct, \E i \in 1..Len(flags) : flags[i] = "crisis"),
         notes            |-> IF redacted.changes # <<>>
                              THEN NotesLabel \o Join(Tuple([i \in 1..Len(redacted.changes) |-> <<redacted.changes[i]>>]), <<",", " ">>)
                              ELSE <<>>]

(***************************************************************************)
(* generate_json_filename.                                                 *)
(***************************************************************************)
\* Path(source_file).stem, line 323: the name without its last suffix; a
\* leading or a trailing dot starts no suffix
Stem(name) ==
    LET dots == {i \in 1..Len(name) : name[i] = "."}
    IN  IF name = <<".">> THEN <<>>
        ELSE IF dots = {} THEN name
        ELSE IF Max(dots) > 1 /\ Max(dots) < Len(name) THEN SubSeq(name, 1, Max(dots) - 1)
        ELSE name

\* re.sub(r'[^\w\-]', '_', s), line 327
Underscored(s) ==
    Tuple([i \in 1..Len(s) |-> IF IsWord(s[i]) \/ s[i] = "-" THEN s[i] ELSE "_"])

\* re.sub(r'_+', '_', s), line 328
Collapsed(s) ==
    LET keep == Ascending({i \in 1..Len(s) : ~(s[i] = "_" /\ i > 1 /\ s[i - 1] = "_")})
    IN  Tuple([i \in 1..Len(keep) |-> s[keep[i]]])

\* s.strip('_'), line 328
StripUnderscores(s) ==
    LET keep == {i \in 1..Len(s) : s[i] # "_"}
    IN  IF keep = {} THEN <<>> ELSE SubSeq(s, Min(keep), Max(keep))

\* the slug with the strip of line 328 done before the substitutions
SlugStripFirst(name) == Collapsed(Underscored(StripUnderscores(LowerStr(Stem(name)))))

\* lines 323, 327, 328: the slug of a basename
Slug(name) == StripUnderscores(Collapsed(Underscored(LowerStr(Stem(name)))))

\* line 325
DomainShort(domain) ==
    IF domain # NULL /\ domain # <<>> /\ Contains(domain, <<"p", "t", "t">>)
    THEN <<"p", "t", "t">>
    ELSE IF domain # NULL /\ domain # <<>> /\ Contains(domain, <<"d", "c", "a", "r", "d">>)
    THEN <<"d", "c", "a", "r", "d">>
    ELSE <<"u", "n", "k", "n", "o", "w", "n">>

\* generate_json_filename(source_file, domain), line 329
generate_json_filename(name, domain) ==
    DomainShort(domain) \o <<"_", "_">> \o Slug(name)
        \o <<"_", "_", ".", "j", "s", "o", "n">>

(***************************************************************************)
(* main.                                                                   *)
(***************************************************************************)
\* the characters of the file names of the model, in code point order
CodePointOrder == <<" ", "-", ".", "A", "B", "_", "a", "b", "h", "l", "m", "t">>
Ord(c) == CHOOSE i \in 1..Len(CodePointOrder) : CodePointOrder[i] = c

\* a < b for str (and for the one-part paths that glob('*.html') yields)
StrLess(a, b) ==
    \/ /\ Len(a) < Len(b)
       /\ SubSeq(b, 1, Len(a)) = a
    \/ \E i \in 1..Len(a) :
          /\ i <= Len(b)
          /\ SubSeq(a, 1, i - 1) = SubSeq(b, 1, i - 1)
          /\ Ord(a[i]) < Ord(b[i])

\* sorted(S), line 357
RECURSIVE Sorted(_)
Sorted(S) ==
    IF S = {} THEN <<>>
    ELSE LET m == CHOOSE x \in S : \A y \in S \ {x} : StrLess(x, y)
         IN  <<m>> \o Sorted(S \ {m})

EndsWith(s, suffix) == Len(s) >= Len(suffix) /\ Last(s, Len(suffix)) = suffix

\* Path('.').glob('*.html') and glob('*.htm'), lines 348-349
Globbed(dir) ==
    {n \in DOMAIN dir :
        \/ EndsWith(n, <<".", "h", "t", "m", "l">>)
        \/ EndsWith(n, <<".", "h", "t", "m">>)}

\* the directory with file `name` written (created, or truncated and rewritten)
WithFile(dir, name, file) ==
    [n \in DOMAIN dir \cup {name} |-> IF n = name THEN file ELSE dir[n]]

EmptyDir == [n \in {} |-> NULL]

(***************************************************************************)
(* Bounds of the model, and the values no operation is running with.       *)
(***************************************************************************)
MaxEvents == 3      \* events fed to one extractor
MaxBody   == 2      \* events of a document after its title element
MaxRun    == 11     \* digits of the longest digit run of a redactor input
MaxRepeat == 2      \* occurrences of one keyword in a classifier input
MaxOver   == 2      \* characters of a text beyond a length limit
MaxShort  == 2      \* characters of a short text
MaxName   == 4      \* characters of a basename
MaxRounds == 2      \* applications of the slug to its own result
MaxFiles  == 2      \* documents in the working directory

Pending == [pending |-> TRUE]      \* parse_html_file has not returned

ExIdle == ExtractorInit
PfIdle == html_content = <<>> /\ result = Pending
ReIdle == body = <<>> /\ text = <<>> /\ changes = <<>> /\ pass = "idle"
ClIdle ==
    /\ title = NULL /\ content = <<>> /\ has_crisis = FALSE
    /\ scores = <<>> /\ primary = NULL /\ secondary = <<>> /\ dialogue = <<>>
SmIdle == content_text = <<>> /\ summary = NULL /\ content_field = NULL
SlIdle == source_file = <<>> /\ slug = NULL /\ rounds = 0
MnIdle ==
    /\ input_dir_exists = FALSE /\ cwd = EmptyDir /\ output_dir = EmptyDir
    /\ html_files = <<>> /\ idx = 0 /\ errors = <<>> /\ zip = {} /\ pc = "idle"

\* all sequences over S of length at most n
SeqsUpTo(S, n) == UNION {[1..k -> S] : k \in 0..n}

(***************************************************************************)
(* SpecExtract: one HTMLContentExtractor is fed any events.                *)
(***************************************************************************)
Tags == {"script", "style", "nav", "aside", "article", "main", "br", "p", "title"}

DataValues ==
    { <<" ">>,
      <<"a">>,
      <<" ", "b", "\n">>,
      <<"x", "u5fb5", "u624d">> }                  \* x徵才, holds a UI keyword

FeedStartTag ==
    /\ Len(fed) < MaxEvents
    /\ \E tag \in Tags : Feed(StartTag(tag))
    /\ UNCHANGED <<vars_pf, vars_re, vars_cl, vars_sm, vars_sl, vars_mn>>

FeedEndTag ==
    /\ Len(fed) < MaxEvents
    /\ \E tag \in Tags : Feed(EndTag(tag))
    /\ UNCHANGED <<vars_pf, vars_re, vars_cl, vars_sm, vars_sl, vars_mn>>

FeedData ==
    /\ Len(fed) < MaxEvents
    /\ \E d \in DataValues : Feed(Data(d))
    /\ UNCHANGED <<vars_pf, vars_re, vars_cl, vars_sm, vars_sl, vars_mn>>

InitExtract == ExtractorInit /\ PfIdle /\ ReIdle /\ ClIdle /\ SmIdle /\ SlIdle /\ MnIdle
NextExtract == FeedStartTag \/ FeedEndTag \/ FeedData
SpecExtract == InitExtract /\ [][NextExtract]_vars

(***************************************************************************)
(* SpecParse: parse_html_file on one document.                             *)
(***************************************************************************)
TitleScenario ==                                   \* 小測試 _ Dcard
    <<"u5c0f", "u6e2c", "u8a66", " ", "_", " ", "D", "c", "a", "r", "d">>
TitleBoard ==                                      \* x - 看板 _ Dcard
    <<"x", " ", "-", " ", "u770b", "u677f", " ", "_", " ", "D", "c", "a", "r", "d">>
BodyCrisis ==                                      \* 我快撐不下去，想死
    <<"u6211", "u5feb", "u6490", "u4e0d", "u4e0b", "u53bb", "uff0c", "u60f3", "u6b7b">>
BodyNoise ==                                       \* 回到頂部
    <<"u56de", "u5230", "u9802", "u90e8">>

TitleElement(t) == <<StartTag("title"), Data(t), EndTag("title")>>

TitleParts == {<<>>} \cup {TitleElement(t) : t \in {TitleScenario, TitleBoard, <<"t">>}}

BodyEvents ==
    { StartTag("p"), EndTag("p"), StartTag("nav"), EndTag("nav"),
      Data(<<"a", " ", "1", "2", "3", "4", "5", "6", "7", "8">>),
      Data(BodyCrisis), Data(BodyNoise), Data(<<" ">>) }

Docs == {t \o b : t \in TitleParts, b \in SeqsUpTo(BodyEvents, MaxBody)}

\* extractor.feed(html_content), line 241, one event at a time.  No handler
\* of the extractor raises, so the except of lines 243-244 is never taken.
ParseFeed ==
    /\ result = Pending
    /\ Len(fed) < Len(html_content)
    /\ Feed(html_content[Len(fed) + 1])
    /\ UNCHANGED <<vars_pf, vars_re, vars_cl, vars_sm, vars_sl, vars_mn>>

\* lines 242-318
ParseReturn ==
    /\ result = Pending
    /\ Len(fed) = Len(html_content)
    /\ result' = Record(html_content, text_parts)
    /\ UNCHANGED <<html_content, vars_ex, vars_re, vars_cl, vars_sm, vars_sl, vars_mn>>

InitParse ==
    /\ html_content \in Docs
    /\ result = Pending
    /\ ExtractorInit /\ ReIdle /\ ClIdle /\ SmIdle /\ SlIdle /\ MnIdle
NextParse == ParseFeed \/ ParseReturn
SpecParse == InitParse /\ [][NextParse]_vars

(***************************************************************************)
(* SpecRedact: obscure_personal_info on one text, pass by pass.            *)
(***************************************************************************)
DigitCycle == <<"1", "2", "3", "4", "5", "6", "7", "8", "9", "0">>

\* the digit run 1234567890123... of k digits
Run(k) == Tuple([i \in 1..k |-> DigitCycle[((i - 1) % 10) + 1]])

HanBefore == <<"u6211", "u7684", "u4fe1", "u7bb1", "u662f">>     \* 我的信箱是
HanAfter  == <<"u8acb", "u806f", "u7d61", "u6211">>              \* 請聯絡我

Affixes == {<<>>, <<" ">>, <<"a">>, <<"_">>, <<"9">>, HanBefore, HanAfter}

Locals == {<<"a">>, <<"a", "b", "1", "2", "3", "4", "5">>, Run(8)}

EmailDomains ==
    { <<"s", "c", "h", "o", "o", "l", ".", "e", "d", "u">>,
      Run(8) \o <<".", "c", "o", "m">>,
      <<"b", ".", "c", "c">> }

Cores ==
    {l \o <<"@">> \o d : l \in Locals, d \in EmailDomains}
        \cup {Run(k) : k \in 7..MaxRun}
        \cup {Run(4) \o <<"-">> \o Run(4), Run(2) \o <<" ">> \o Run(8)}

RedactInputs == {<<>>} \cup {p \o c \o q : p \in Affixes, c \in Cores, q \in Affixes}

\* lines 102-103
ObscureEmpty ==
    /\ pass = "student_id"
    /\ text = <<>>
    /\ pass' = "done"
    /\ UNCHANGED <<body, text, changes, vars_ex, vars_pf, vars_cl, vars_sm, vars_sl, vars_mn>>

ObscureStep(kind, next) ==
    /\ pass = kind
    /\ text # <<>>
    /\ LET st == ObscurePass(kind, [text |-> text, changes |-> changes])
       IN  text' = st.text /\ changes' = st.changes
    /\ pass' = next
    /\ UNCHANGED <<body, vars_ex, vars_pf, vars_cl, vars_sm, vars_sl, vars_mn>>

ObscureStudentId == ObscureStep("student_id", "email")     \* lines 107-111
ObscureEmail     == ObscureStep("email", "phone")          \* lines 113-117
ObscurePhone     == ObscureStep("phone", "done")           \* lines 119-125

InitRedact ==
    /\ body \in RedactInputs
    /\ text = body
    /\ changes = <<>>
    /\ pass = "student_id"
    /\ ExIdle /\ PfIdle /\ ClIdle /\ SmIdle /\ SlIdle /\ MnIdle
NextRedact == ObscureEmpty \/ ObscureStudentId \/ ObscureEmail \/ ObscurePhone
SpecRedact == InitRedact /\ [][NextRedact]_vars

(***************************************************************************)
(* SpecClassify: classify_topic on one (title, content).                   *)
(***************************************************************************)
\* one keyword of each category of the table, in table order:
\* 研究所, 壓力, 孤獨, 休學, 宿舍, 找工作
Vocabulary ==
    << <<"u7814", "u7a76", "u6240">>,
       <<"u58d3", "u529b">>,
       <<"u5b64", "u7368">>,
       <<"u4f11", "u5b78">>,
       <<"u5bbf", "u820d">>,
       <<"u627e", "u5de5", "u4f5c">> >>

\* w repeated n times
RECURSIVE Repeat(_, _)
Repeat(w, n) == IF n = 0 THEN <<>> ELSE w \o Repeat(w, n - 1)

\* the text with Vocabulary[i] repeated m[i] times, for i from k on
RECURSIVE TextOf(_, _)
TextOf(m, k) ==
    IF k > Len(Vocabulary) THEN <<>>
    ELSE Repeat(Vocabulary[k], m[k]) \o TextOf(m, k + 1)

ClassifyContents == {TextOf(m, 1) : m \in [1..Len(Vocabulary) -> 0..MaxRepeat]}

\* "", 研究 and 工作A
ClassifyTitles == {<<>>, <<"u7814", "u7a76">>, <<"u5de5", "u4f5c", "A">>}

\* lines 129-150
ClassifyTopic ==
    /\ scores = <<>>
    /\ LET sc == Scores(title, content)
           p  == PrimaryIndex(sc)
           s  == SecondaryIndexes(sc, p)
       IN  /\ scores' = sc
           /\ primary' = keywords[p].category
           /\ secondary' = Tuple([i \in 1..Len(s) |-> keywords[s[i]].category])
    /\ UNCHANGED <<title, content, has_crisis, dialogue,
                   vars_ex, vars_pf, vars_re, vars_sm, vars_sl, vars_mn>>

InitClassify ==
    /\ title \in ClassifyTitles
    /\ content \in ClassifyContents
    /\ has_crisis = FALSE /\ scores = <<>> /\ primary = NULL /\ secondary = <<>>
    /\ dialogue = <<>>
    /\ ExIdle /\ PfIdle /\ ReIdle /\ SmIdle /\ SlIdle /\ MnIdle
NextClassify == ClassifyTopic
SpecClassify == InitClassify /\ [][NextClassify]_vars

(***************************************************************************)
(* SpecDialogue: generate_mock_dialogue on one (title, content, crisis).   *)
(***************************************************************************)
\* n characters: "a" up to the excerpt limit, "b" beyond it
Filled(n) == Tuple([i \in 1..n |-> IF i <= ExcerptLimit THEN "a" ELSE "b"])

DialogueContents ==
    {Filled(n) : n \in (0..MaxShort) \cup ((ExcerptLimit - 1)..(ExcerptLimit + MaxOver))}

\* None, "", "t" and 想放棄了
DialogueTitles == {NULL, <<>>, <<"t">>, <<"u60f3", "u653e", "u68c4", "u4e86">>}

\* lines 184-218
GenerateMockDialogue ==
    /\ dialogue = <<>>
    /\ dialogue' = generate_mock_dialogue(title, content, has_crisis)
    /\ UNCHANGED <<title, content, has_crisis, scores, primary, secondary,
                   vars_ex, vars_pf, vars_re, vars_sm, vars_sl, vars_mn>>

InitDialogue ==
    /\ title \in DialogueTitles
    /\ content \in DialogueContents
    /\ has_crisis \in BOOLEAN
    /\ scores = <<>> /\ primary = NULL /\ secondary = <<>> /\ dialogue = <<>>
    /\ ExIdle /\ PfIdle /\ ReIdle /\ SmIdle /\ SlIdle /\ MnIdle
NextDialogue == GenerateMockDialogue
SpecDialogue == InitDialogue /\ [][NextDialogue]_vars

(***************************************************************************)
(* SpecSummary: the summary and the content field of one redacted text.    *)
(***************************************************************************)
SummaryLengths ==
    (0..MaxShort)
        \cup ((SummaryLimit - 2)..(SummaryLimit + MaxOver))
        \cup ((ContentLimit - 1)..(ContentLimit + MaxOver))

\* n characters "a", with `width` characters `ws` from index `at` on
Spaced(n, at, width, ws) ==
    Tuple([i \in 1..n |-> IF at > 0 /\ i >= at /\ i < at + width THEN ws ELSE "a"])

\* The redacted text of parse_html_file is get_text()'s result after the
\* three passes: it neither starts nor ends with white space.
SpacedTexts ==
    {Spaced(n, at, width, ws) :
        n \in SummaryLengths,
        at \in {0} \cup ((SummaryLimit - 2)..(SummaryLimit + 1)),
        width \in 1..2,
        ws \in {" ", "\n"}}

SummaryInputs == {s \in SpacedTexts : Strip(s) = s}

\* lines 290-293 and 308
Summarize ==
    /\ summary = NULL
    /\ summary' = Summary(content_text)
    /\ content_field' = ContentField(content_text)
    /\ UNCHANGED <<content_text, vars_ex, vars_pf, vars_re, vars_cl, vars_sl, vars_mn>>

InitSummary ==
    /\ content_text \in SummaryInputs
    /\ summary = NULL /\ content_field = NULL
    /\ ExIdle /\ PfIdle /\ ReIdle /\ ClIdle /\ SlIdle /\ MnIdle
NextSummary == Summarize
SpecSummary == InitSummary /\ [][NextSummary]_vars

(***************************************************************************)
(* SpecSlug: the slug of a basename, and of its own result.                *)
(***************************************************************************)
NameChars == {"a", "A", "_", "-", ".", " ", "u5c0f"}

\* lines 323-328 on source_file
Slugify ==
    /\ rounds = 0
    /\ slug' = Slug(source_file)
    /\ rounds' = 1
    /\ UNCHANGED <<source_file, vars_ex, vars_pf, vars_re, vars_cl, vars_sm, vars_mn>>

\* the slug is handed back as the basename
Reslugify ==
    /\ rounds >= 1
    /\ rounds < MaxRounds
    /\ source_file' = slug
    /\ slug' = Slug(slug)
    /\ rounds' = rounds + 1
    /\ UNCHANGED <<vars_ex, vars_pf, vars_re, vars_cl, vars_sm, vars_mn>>

InitSlug ==
    /\ source_file \in SeqsUpTo(NameChars, MaxName)
    /\ slug = NULL /\ rounds = 0
    /\ ExIdle /\ PfIdle /\ ReIdle /\ ClIdle /\ SmIdle /\ MnIdle
NextSlug == Slugify \/ Reslugify
SpecSlug == InitSlug /\ [][NextSlug]_vars

(***************************************************************************)
(* SpecMain: one batch run of main.  A file of the working directory is    *)
(* described by the domain of its og:url (None without one) and by whether *)
(* it can be read; a file of the output directory by the document its      *)
(* record comes from and by whether json.dump completed.                   *)
(***************************************************************************)
FileNames ==
    { <<"a", ".", "h", "t", "m", "l">>,
      <<"A", ".", "h", "t", "m", "l">>,
      <<"a", ".", "h", "t", "m">>,
      <<"b", ".", "h", "t", "m", "l">> }

Domains ==
    { NULL,
      <<"w", "w", "w", ".", "p", "t", "t", ".", "c", "c">>,
      <<"w", "w", "w", ".", "d", "c", "a", "r", "d", ".", "t", "w">> }

FileStates == [domain : Domains, readable : BOOLEAN]

\* what an earlier run left in ./output_jsons
StaleDir ==
    [n \in {<<"o", "l", "d", ".", "j", "s", "o", "n">>} |->
        [source |-> <<"o", "l", "d", ".", "h", "t", "m", "l">>, complete |-> TRUE]]

\* lines 336-339
MainNoInputDir ==
    /\ pc = "start"
    /\ ~input_dir_exists
    /\ input_dir_exists' = TRUE
    /\ pc' = "returned"
    /\ UNCHANGED <<cwd, output_dir, html_files, idx, errors, zip,
                   vars_ex, vars_pf, vars_re, vars_cl, vars_sm, vars_sl>>

\* lines 341-355
MainDiscover ==
    /\ pc = "start"
    /\ input_dir_exists
    /\ output_dir' = EmptyDir
    /\ html_files' = Sorted(Globbed(cwd))
    /\ pc' = IF Globbed(cwd) = {} THEN "returned" ELSE "loop"
    /\ UNCHANGED <<input_dir_exists, cwd, idx, errors, zip,
                   vars_ex, vars_pf, vars_re, vars_cl, vars_sm, vars_sl>>

\* the document of this turn of the loop of line 357
Current == html_files[idx + 1]
InLoop == pc = "loop" /\ idx < Len(html_files)

\* line 360
JsonName(f) == generate_json_filename(f, cwd[f].domain)

\* lines 359-364: the record is parsed, named and written
ProcessWritten ==
    /\ InLoop
    /\ cwd[Current].readable
    /\ output_dir' = WithFile(output_dir, JsonName(Current),
                              [source |-> Current, complete |-> TRUE])
    /\ idx' = idx + 1
    /\ UNCHANGED <<input_dir_exists, cwd, html_files, errors, zip, pc,
                   vars_ex, vars_pf, vars_re, vars_cl, vars_sm, vars_sl>>

\* line 359 raises (the three open calls of lines 223-231 fail); line 369
ProcessParseFails ==
    /\ InLoop
    /\ ~cwd[Current].readable
    /\ errors' = Append(errors, Current)
    /\ idx' = idx + 1
    /\ UNCHANGED <<input_dir_exists, cwd, output_dir, html_files, zip, pc,
                   vars_ex, vars_pf, vars_re, vars_cl, vars_sm, vars_sl>>

\* open(json_path, 'w') of line 363 raises; line 369
ProcessOpenFails ==
    /\ InLoop
    /\ cwd[Current].readable
    /\ errors' = Append(errors, Current)
    /\ idx' = idx + 1
    /\ UNCHANGED <<input_dir_exists, cwd, output_dir, html_files, zip, pc,
                   vars_ex, vars_pf, vars_re, vars_cl, vars_sm, vars_sl>>

\* json.dump of line 364 raises while writing (OSError): line 363 has
\* created or truncated the file, which keeps what was written; line 369
ProcessDumpFails ==
    /\ InLoop
    /\ cwd[Current].readable
    /\ output_dir' = WithFile(output_dir, JsonName(Current),
                              [source |-> Current, complete |-> FALSE])
    /\ errors' = Append(errors, Current)
    /\ idx' = idx + 1
    /\ UNCHANGED <<input_dir_exists, cwd, html_files, zip, pc,
                   vars_ex, vars_pf, vars_re, vars_cl, vars_sm, vars_sl>>

\* lines 371-378
MainZip ==
    /\ pc = "loop"
    /\ idx = Len(html_files)
    /\ zip' = DOMAIN output_dir
    /\ pc' = "done"
    /\ UNCHANGED <<input_dir_exists, cwd, output_dir, html_files, idx, errors,
                   vars_ex, vars_pf, vars_re, vars_cl, vars_sm, vars_sl>>

InitMain ==
    /\ input_dir_exists \in BOOLEAN
    /\ \E S \in SUBSET FileNames :
          /\ Cardinality(S) <= MaxFiles
          /\ cwd \in [S -> FileStates]
    /\ output_dir \in {EmptyDir, StaleDir}
    /\ html_files = <<>> /\ idx = 0 /\ errors = <<>> /\ zip = {} /\ pc = "start"
    /\ ExIdle /\ PfIdle /\ ReIdle /\ ClIdle /\ SmIdle /\ SlIdle
NextMain ==
    \/ MainNoInputDir
    \/ MainDiscover
    \/ ProcessWritten
    \/ ProcessParseFails
    \/ ProcessOpenFails
    \/ ProcessDumpFails
    \/ MainZip
SpecMain == InitMain /\ [][NextMain]_vars

(***************************************************************************)
(* Properties.                                                             *)
(***************************************************************************)
Range(s) == {s[i] : i \in 1..Len(s)}

AsciiLetters == Range(Upper) \cup Range(Lower)

\* a character of an e-mail address as it is written in ASCII
IsAtom(c) == c \in Digit \cup AsciiLetters \cup {".", "-", "_"}

\* the longest run of address characters that ends right before index j
AtomsBefore(t, j) ==
    Max({n \in 0..(j - 1) : \A k \in (j - n)..(j - 1) : IsAtom(t[k])})

\* the longest run of address characters that starts right after index j
AtomsAfter(t, j) ==
    Max({n \in 0..(Len(t) - j) : \A k \in (j + 1)..(j + n) : IsAtom(t[k])})

\* domain.tld: labels around at least one inner dot, ending in a letter or digit
IsDomain(d) ==
    /\ Len(d) >= 3
    /\ d[1] \notin {".", "-", "_"}
    /\ d[Len(d)] \notin {".", "-", "_"}
    /\ \E i \in 2..(Len(d) - 1) : d[i] = "."

\* the well-formed addresses local@domain.tld of t
Emails(t) ==
    {e \in {[local  |-> SubSeq(t, j - AtomsBefore(t, j), j - 1),
             domain |-> SubSeq(t, j + 1, j + AtomsAfter(t, j))] :
                j \in {k \in 1..Len(t) : t[k] = "@"}} :
        e.local # <<>> /\ IsDomain(e.domain)}

\* the digit runs of t of 8 to 10 digits that are part of no longer run
StandaloneRuns(t) ==
    {SubSeq(t, w[1], w[1] + w[2] - 1) :
        w \in {v \in (1..Len(t)) \X (8..10) :
                  /\ v[1] + v[2] - 1 <= Len(t)
                  /\ \A k \in v[1]..(v[1] + v[2] - 1) : IsDigit(t[k])
                  /\ (v[1] = 1 \/ ~IsDigit(t[v[1] - 1]))
                  /\ (v[1] + v[2] > Len(t) \/ ~IsDigit(t[v[1] + v[2]]))}}

Stars == <<"*", "*", "*">>

\* C1: once the three passes have run, every well-formed address
\* local@domain.tld of the input shows in the output as the first 2
\* characters of its local part, "***@" and its domain unchanged, and the
\* redaction log holds "email".
C1_EmailMasked ==
    pass = "done" =>
        \A e \in Emails(body) :
            /\ Contains(text, Take(e.local, 2) \o Stars \o <<"@">> \o e.domain)
            /\ "email" \in Range(changes)

\* C2: once the three passes have run, every run of 8 to 10 digits of the
\* input that is part of no longer digit run, whatever is next to it, shows
\* in the output as its first 2 digits, the marker and its last 2 digits,
\* and the redaction log holds "student_id".
C2_StudentIdMasked ==
    pass = "done" =>
        \A r \in StandaloneRuns(body) :
            /\ Contains(text, Take(r, 2) \o Stars \o Last(r, 2))
            /\ "student_id" \in Range(changes)

\* C3: the document that is only <title>小測試 _ Dcard</title> yields
\* title 小測試, content_text None and an empty summary.
C3_TitleOnlyDocument ==
    (result # Pending /\ html_content = TitleElement(TitleScenario)) =>
        /\ result.title = <<"u5c0f", "u6e2c", "u8a66">>
        /\ result.content_text = NULL
        /\ result.summary_150zh = <<>>

Roles(d) == [i \in 1..Len(d) |-> d[i].role]

FourAlternatingTurns(d) ==
    Roles(d) = <<"user", "assistant", "user", "assistant">>

\* the dialogue for the same title and content and the other crisis flag
OtherDialogue == generate_mock_dialogue(title, content, ~has_crisis)

\* C4, on the 4th turn: the dialogue has 4 turns, user and assistant in turn, and
\* its 4th turn (the second assistant turn) is not the 4th turn for the same
\* title and content with the other crisis flag.
C4_SecondAssistantTurnDiffers ==
    dialogue # <<>> =>
        /\ FourAlternatingTurns(dialogue)
        /\ dialogue[4].text # OtherDialogue[4].text

\* C4, on the 2nd turn: the dialogue has 4 turns, user and assistant in turn, and
\* its 2nd turn (the first assistant turn) is not the 2nd turn for the same
\* title and content with the other crisis flag.
C4_FirstAssistantTurnDiffers ==
    dialogue # <<>> =>
        /\ FourAlternatingTurns(dialogue)
        /\ dialogue[2].text # OtherDialogue[2].text

\* a crisis dialogue was generated from a content longer than the excerpt
C4_Witness ==
    /\ dialogue # <<>>
    /\ has_crisis
    /\ Len(content) > ExcerptLimit
    /\ title # NULL /\ title # <<>>

\* the place of a category in the table
CategoryIndex(c) == CHOOSE i \in 1..Len(keywords) : keywords[i].category = c

Positive(sc) == {i \in 1..Len(sc) : sc[i] > 0}

\* C5: primary is the first category, in table order, of the largest score
\* (the first of the table when every score is 0); secondary is the first up
\* to 3 categories, in table order, of a score above 0 that are not primary.
C5_PrimaryAndSecondary ==
    scores # <<>> =>
        LET p == CategoryIndex(primary)
            s == [k \in 1..Len(secondary) |-> CategoryIndex(secondary[k])]
        IN  /\ primary \in {keywords[i].category : i \in 1..Len(keywords)}
            /\ \A j \in 1..Len(scores) : scores[j] <= scores[p]
            /\ \A j \in 1..(p - 1) : scores[j] < scores[p]
            /\ (Positive(scores) = {} => p = 1)
            /\ Len(secondary) <= 3
            /\ \A k \in 1..Len(s) : s[k] \in Positive(scores) /\ s[k] # p
            /\ \A k \in 1..(Len(s) - 1) : s[k] < s[k + 1]
            /\ \A q \in Positive(scores) \ ({p} \cup Range(s)) :
                   Len(s) = 3 /\ q > s[3]

\* several categories share the largest score and more than 3 others score
C5_Witness ==
    /\ scores # <<>>
    /\ Cardinality({i \in 1..Len(scores) : \A j \in 1..Len(scores) : scores[j] <= scores[i]}) >= 2
    /\ Cardinality(Positive(scores)) >= 5
    /\ Len(secondary) = 3

\* C6, not counting the ellipsis: the summary has at most 180 characters and the content
\* field at most 2000.
C6_SummaryWithinLimit ==
    summary # NULL =>
        /\ Len(summary) <= SummaryLimit
        /\ (content_field # NULL => Len(content_field) <= ContentLimit)

\* C6, counting the ellipsis: the summary has at most 183 characters (180 of the text
\* and the 3 of the ellipsis) and the content field at most 2000.
C6_SummaryWithinLimitAndEllipsis ==
    summary # NULL =>
        /\ Len(summary) <= SummaryLimit + Len(Ellipsis)
        /\ (content_field # NULL => Len(content_field) <= ContentLimit)

\* a text longer than both limits was summarised and cut
C6_Witness ==
    /\ summary # NULL
    /\ Len(content_text) > ContentLimit
    /\ Len(summary) = SummaryLimit + Len(Ellipsis)
    /\ Len(content_field) = ContentLimit

\* C7: the slug of a basename that is itself a slug is that basename.
C7_SlugIdempotent == rounds >= 2 => slug = source_file

\* the slug of a slug with an inner underscore was taken
C7_Witness ==
    /\ rounds >= 2
    /\ Len(slug) >= 3
    /\ "_" \in Range(slug)

\* the documents whose turn of the loop ended in the except of line 368
Failed == Range(errors)

\* C8: a document whose processing or writing failed has no file in the
\* output directory, the loop goes on to every later document and the
\* archive is made of the output directory after the last one.
C8_FailureWritesNoFile ==
    /\ \A f \in Failed : \A n \in DOMAIN output_dir : output_dir[n].source # f
    /\ pc = "done" => (idx = Len(html_files) /\ zip = DOMAIN output_dir)

\* the text segments of the buffer: what is not a separator of line 56 or 58
RECURSIVE Segments(_)
Segments(parts) ==
    IF parts = <<>> THEN <<>>
    ELSE (IF Head(parts) = NL THEN <<>> ELSE <<Head(parts)>>) \o Segments(Tail(parts))

\* whether the last start or end event of `tag` among evs was a start
LastWasOpen(tag, evs) ==
    LET at == {i \in 1..Len(evs) : evs[i].kind \in {"start", "end"} /\ evs[i].tag = tag}
    IN  at # {} /\ evs[Max(at)].kind = "start"

\* whether the i-th event is a text whose segment is to be kept
Retained(evs, i) ==
    /\ evs[i].kind = "data"
    /\ \A tag \in {"script", "style", "nav", "aside"} : ~LastWasOpen(tag, SubSeq(evs, 1, i - 1))
    /\ Strip(evs[i].data) # <<>>
    /\ \A k \in 1..Len(ui_keywords) : ~Contains(Strip(evs[i].data), ui_keywords[k])

\* C9: each of the four flags is whether the last start or end event of its
\* tag was a start, and the text segments of the buffer are, in the order of
\* the events, the trimmed texts of exactly the text events that came while
\* no flag was set and that are not empty and hold no UI keyword.
C9_BufferHoldsRetainedText ==
    /\ in_script = LastWasOpen("script", fed)
    /\ in_style = LastWasOpen("style", fed)
    /\ in_nav = LastWasOpen("nav", fed)
    /\ in_aside = LastWasOpen("aside", fed)
    /\ LET kept == Ascending({i \in 1..Len(fed) : Retained(fed, i)})
       IN  Segments(text_parts) = Tuple([k \in 1..Len(kept) |-> Strip(fed[kept[k]].data)])

\* a text was kept, aside was opened, and the next text was not kept
C9_Witness ==
    /\ Len(fed) = 3
    /\ fed[1].kind = "data" /\ fed[3].kind = "data"
    /\ fed[2] = StartTag("aside")
    /\ Keeps(Strip(fed[3].data))
    /\ text_parts = <<Strip(fed[1].data)>>

\* the documents whose turn of the loop ended without an exception
Succeeded == {html_files[i] : i \in 1..idx} \ Failed

\* C10: the record of every document processed without error is in the
\* output directory under its file name, no two such documents share a file
\* name, and after a run without failure the output directory and the
\* archive hold as many files as documents were processed.
C10_EachRecordKept ==
    /\ \A f \in Succeeded :
          /\ JsonName(f) \in DOMAIN output_dir
          /\ output_dir[JsonName(f)].source = f
    /\ \A f \in Succeeded : \A g \in Succeeded \ {f} : JsonName(f) # JsonName(g)
    /\ (pc = "done" /\ errors = <<>>) =>
          /\ Cardinality(DOMAIN output_dir) = Len(html_files)
          /\ Cardinality(zip) = Len(html_files)

=============================================================================
